---- MODULE Spec2Model ----
(***************************************************************************)
(* A model of resolveLogView (logs_shared/common/log_views/                *)
(* resolved_log_view.ts): one invocation of the resolver, the service      *)
(* calls it makes on the injected dataViewsService and logSourcesService,  *)
(* the settlement of each of those calls, and the promise it returns.      *)
(*                                                                         *)
(* The services are external: a call is recorded in `calls`, and its       *)
(* outcome (a value or an error, chosen freely) is recorded in `replies`   *)
(* by the action that resumes the async function after its await.          *)
(***************************************************************************)
EXTENDS Naturals, Sequences, FiniteSets, TLC

VARIABLES
  pc,       \* where the invocation stands: "start", "await_<op>", "settled"
  args,     \* the arguments of the invocation
  frame,    \* the async function that runs, with its locals
  calls,    \* the service calls made so far, in order
  replies,  \* the outcomes of the settled service calls, in order
  result    \* the promise resolveLogView returned

vars == <<pc, args, frame, calls, replies, result>>

-----------------------------------------------------------------------------
(* Bounds and input domains *)

MaxLogSources == 2

\* JavaScript values of an optional type: undefined, null, or a value.
undefined == [type |-> "undefined"]
null == [type |-> "null"]
Some(v) == [type |-> "value", value |-> v]

\* a ?? b
NullishOr(a, b) == IF a.type = "value" THEN a.value ELSE b

\* a || b on optional strings, the usual slip for ??
FalsyOr(a, b) == IF a.type = "value" /\ a.value # "" THEN a.value ELSE b

\* ../constants and ./defaults
TIMESTAMP_FIELD == "@timestamp"
TIEBREAKER_FIELD == "_doc"
defaultLogViewsStaticConfig == [messageFields |-> <<"message">>]

LogViewIds == {"default", "custom"}
LogViewNames == {"Default", "Nginx logs"}
LogViewDescriptions == {"", "All nginx logs"}
LogColumnLists == {<<>>, <<"timestamp", "message">>}
IndexNames == {"logs-*", "logs-*,filebeat-*"}
DataViewIds == {"dv-1", "dv-2"}
IndexPatterns == {"logs-*", "filebeat-*"}

LogIndicesRefs ==
  {[type |-> "index_name", indexName |-> n] : n \in IndexNames}
    \cup {[type |-> "data_view", dataViewId |-> d] : d \in DataViewIds}
    \cup {[type |-> "kibana_advanced_setting"]}
    \cup {[type |-> "unknown"]}

LogViewAttributesSet ==
  [name : LogViewNames, description : LogViewDescriptions,
   logColumns : LogColumnLists, logIndices : LogIndicesRefs]

StaticConfigs ==
  {[messageFields |-> m] :
     m \in {undefined, null, Some(<<>>), Some(<<"log.original", "message">>)}}

\* What the services can hand back.
RuntimeMappingsSet == {{}, {<<"day_of_week", "keyword">>}}
FieldLists == {<<>>, <<"@timestamp", "message">>}
TimeFieldNames ==
  {undefined, null, Some(""), Some("@timestamp"), Some("event.created")}

DataViews ==
  [indexPattern : {"metrics-*", "logs-*"}, timeFieldName : TimeFieldNames,
   fields : FieldLists, runtimeMappings : RuntimeMappingsSet]

LogSource(p) == [indexPattern |-> p]

SeqsUpTo(S, n) == UNION {[1..k -> S] : k \in 0..n}

LogSourceLists == SeqsUpTo({LogSource(p) : p \in IndexPatterns}, MaxLogSources)

ServiceErrors ==
  {[name |-> "Error", message |-> "socket hang up"],
   [name |-> "SavedObjectNotFound", message |-> ""]}

-----------------------------------------------------------------------------
(* Helpers *)

\* String(error) of an Error object
ErrorToString(e) ==
  IF e.name = "" THEN e.message
  ELSE IF e.message = "" THEN e.name
  ELSE e.name \o ": " \o e.message

Error(message) == [name |-> "Error", message |-> message]

ResolveLogViewError(message, cause) ==
  [name |-> "ResolveLogViewError", message |-> message, cause |-> cause]

MapIndexPattern_reversed(logSources) ==
  [i \in 1..Len(logSources) |-> logSources[Len(logSources) + 1 - i].indexPattern]

\* Array.prototype.map(logSource => logSource.indexPattern)
MapIndexPattern(logSources) ==
  [i \in 1..Len(logSources) |-> logSources[i].indexPattern]

\* Array.prototype.join(sep)
RECURSIVE Join(_, _)
Join(strs, sep) ==
  IF Len(strs) = 0 THEN ""
  ELSE IF Len(strs) = 1 THEN strs[1]
  ELSE strs[1] \o sep \o Join(Tail(strs), sep)

getIndexPattern(dataView) == dataView.indexPattern
getRuntimeMappings(dataView) == dataView.runtimeMappings

resolveRuntimeMappings_empty(dataView) == {}

\* this might take other sources of runtime fields into account in the future
resolveRuntimeMappings(dataView) == getRuntimeMappings(dataView)

\* The first argument of dataViewsService.create in both creating branches
CreateSpec(logViewId, logViewAttributes, indices) ==
  [id |-> "log-view-" \o logViewId,
   name |-> logViewAttributes.name,
   title |-> indices,
   timeFieldName |-> TIMESTAMP_FIELD,
   allowNoIndex |-> TRUE]

CreateCall(logViewId, logViewAttributes, indices) ==
  [op |-> "create",
   args |-> <<CreateSpec(logViewId, logViewAttributes, indices), FALSE, FALSE>>]

GetCall(dataViewId) == [op |-> "get", args |-> <<dataViewId>>]

GetLogSourcesCall == [op |-> "getLogSources", args |-> <<>>]

Fulfilled(v) == [status |-> "fulfilled", value |-> v]
Rejected(e) == [status |-> "rejected", reason |-> e]
Pending == [status |-> "pending"]

Ok(v) == [ok |-> TRUE, value |-> v]
Failed(e) == [ok |-> FALSE, error |-> e]

-----------------------------------------------------------------------------
(* The objects the three branches return *)

TimestampFieldOf_falsy(dataView) == FalsyOr(dataView.timeFieldName, TIMESTAMP_FIELD)

\* dataView.timeFieldName ?? TIMESTAMP_FIELD
TimestampFieldOf(dataView) == NullishOr(dataView.timeFieldName, TIMESTAMP_FIELD)

MessageFieldOf_ignoresConfig(config) == <<"message">>

\* config.messageFields ?? defaultLogViewsStaticConfig.messageFields
MessageFieldOf(config) ==
  NullishOr(config.messageFields, defaultLogViewsStaticConfig.messageFields)

LegacyResolved_swapped(logViewAttributes, config, indices, dataViewReference) ==
  [indices |-> indices,
   timestampField |-> TIMESTAMP_FIELD,
   tiebreakerField |-> TIEBREAKER_FIELD,
   messageField |-> MessageFieldOf(config),
   fields |-> dataViewReference.fields,
   runtimeMappings |-> {},
   columns |-> logViewAttributes.logColumns,
   name |-> logViewAttributes.description,
   description |-> logViewAttributes.name,
   dataViewReference |-> dataViewReference]

LegacyResolved(logViewAttributes, config, indices, dataViewReference) ==
  [indices |-> indices,
   timestampField |-> TIMESTAMP_FIELD,
   tiebreakerField |-> TIEBREAKER_FIELD,
   messageField |-> MessageFieldOf(config),
   fields |-> dataViewReference.fields,
   runtimeMappings |-> {},
   columns |-> logViewAttributes.logColumns,
   name |-> logViewAttributes.name,
   description |-> logViewAttributes.description,
   dataViewReference |-> dataViewReference]

DataViewResolved(logViewAttributes, dataView) ==
  [indices |-> getIndexPattern(dataView),
   timestampField |-> TimestampFieldOf(dataView),
   tiebreakerField |-> TIEBREAKER_FIELD,
   messageField |-> <<"message">>,
   fields |-> dataView.fields,
   runtimeMappings |-> resolveRuntimeMappings(dataView),
   columns |-> logViewAttributes.logColumns,
   name |-> logViewAttributes.name,
   description |-> logViewAttributes.description,
   dataViewReference |-> dataView]

AdvancedSettingResolved(logViewAttributes, indices, dataViewReference) ==
  [indices |-> indices,
   timestampField |-> TIMESTAMP_FIELD,
   tiebreakerField |-> TIEBREAKER_FIELD,
   messageField |-> <<"message">>,
   fields |-> dataViewReference.fields,
   runtimeMappings |-> {},
   columns |-> logViewAttributes.logColumns,
   name |-> logViewAttributes.name,
   description |-> logViewAttributes.description,
   dataViewReference |-> dataViewReference]

-----------------------------------------------------------------------------
(* The invocation *)

Init ==
  /\ pc = "start"
  /\ args \in [logViewId : LogViewIds,
               logViewAttributes : LogViewAttributesSet,
               config : StaticConfigs]
  /\ frame = [fn |-> "none"]
  /\ calls = <<>>
  /\ replies = <<>>
  /\ result = Pending

Branch_noDataView(logViewAttributes) ==
  IF logViewAttributes.logIndices.type = "index_name"
    THEN "resolveLegacyReference"
    ELSE "resolveKibanaAdvancedSettingReference"

\* the if / else if / else of resolveLogView
Branch(logViewAttributes) ==
  IF logViewAttributes.logIndices.type = "index_name"
    THEN "resolveLegacyReference"
  ELSE IF logViewAttributes.logIndices.type = "data_view"
    THEN "resolveDataViewReference"
  ELSE "resolveKibanaAdvancedSettingReference"

\* an async function that throws before its first await
Throws(fn, error) ==
  /\ frame' = [fn |-> fn]
  /\ calls' = calls
  /\ result' = Rejected(error)
  /\ pc' = "settled"

\* resolveLegacyReference up to its await
BeginLegacy ==
  IF args.logViewAttributes.logIndices.type # "index_name"
    THEN Throws("resolveLegacyReference",
                Error("This function can only resolve legacy references"))
    ELSE LET indices == args.logViewAttributes.logIndices.indexName IN
         /\ frame' = [fn |-> "resolveLegacyReference", indices |-> indices]
         /\ calls' = Append(calls,
                CreateCall(args.logViewId, args.logViewAttributes, indices))
         /\ result' = result
         /\ pc' = "await_create"

\* resolveDataViewReference up to its await
BeginDataView ==
  IF args.logViewAttributes.logIndices.type # "data_view"
    THEN Throws("resolveDataViewReference",
                Error("This function can only resolve Kibana data view references"))
    ELSE LET dataViewId == args.logViewAttributes.logIndices.dataViewId IN
         /\ frame' = [fn |-> "resolveDataViewReference", dataViewId |-> dataViewId]
         /\ calls' = Append(calls, GetCall(dataViewId))
         /\ result' = result
         /\ pc' = "await_get"

NotAdvancedSetting_unchecked(logIndices) == FALSE

\* the guard of resolveKibanaAdvancedSettingReference
NotAdvancedSetting(logIndices) == logIndices.type # "kibana_advanced_setting"

\* resolveKibanaAdvancedSettingReference up to its first await
BeginAdvancedSetting ==
  IF NotAdvancedSetting(args.logViewAttributes.logIndices)
    THEN Throws("resolveKibanaAdvancedSettingReference",
                Error("This function can only resolve references to the Log Sources Kibana advanced setting"))
    ELSE /\ frame' = [fn |-> "resolveKibanaAdvancedSettingReference"]
         /\ calls' = Append(calls, GetLogSourcesCall)
         /\ result' = result
         /\ pc' = "await_getLogSources"

resolveLogView ==
  /\ pc = "start"
  /\ LET fn == Branch(args.logViewAttributes) IN
       CASE fn = "resolveLegacyReference" -> BeginLegacy
         [] fn = "resolveDataViewReference" -> BeginDataView
         [] OTHER -> BeginAdvancedSetting
  /\ UNCHANGED <<args, replies>>

-----------------------------------------------------------------------------
(* The continuations after each await *)

Settle(reply, outcome) ==
  /\ replies' = Append(replies, reply)
  /\ result' = outcome
  /\ pc' = "settled"
  /\ UNCHANGED <<args, frame, calls>>

LegacyCreateResolved ==
  /\ pc = "await_create"
  /\ frame.fn = "resolveLegacyReference"
  /\ \E dataViewReference \in DataViews :
       Settle(Ok(dataViewReference),
              Fulfilled(LegacyResolved(args.logViewAttributes, args.config,
                                       frame.indices, dataViewReference)))

LegacyCreateRejected_retries ==
  /\ pc = "await_create"
  /\ frame.fn = "resolveLegacyReference"
  /\ Len(calls) < 2
  /\ \E error \in ServiceErrors :
       /\ replies' = Append(replies, Failed(error))
       /\ calls' = Append(calls, calls[Len(calls)])
       /\ UNCHANGED <<pc, args, frame, result>>

\* the .catch of the create call
LegacyCreateRejected ==
  /\ pc = "await_create"
  /\ frame.fn = "resolveLegacyReference"
  /\ \E error \in ServiceErrors :
       Settle(Failed(error),
              Rejected(ResolveLogViewError(
                "Failed to create Data View reference: " \o ErrorToString(error),
                error)))

DataViewGetResolved ==
  /\ pc = "await_get"
  /\ frame.fn = "resolveDataViewReference"
  /\ \E dataView \in DataViews :
       Settle(Ok(dataView),
              Fulfilled(DataViewResolved(args.logViewAttributes, dataView)))

\* the .catch of the get call
DataViewGetRejected ==
  /\ pc = "await_get"
  /\ frame.fn = "resolveDataViewReference"
  /\ \E error \in ServiceErrors :
       Settle(Failed(error),
              Rejected(ResolveLogViewError(
                "Failed to fetch data view \"" \o frame.dataViewId \o "\": "
                  \o ErrorToString(error),
                error)))

\* getLogSources resolved: map, join, then the create call up to its await
AdvancedGetLogSourcesResolved ==
  /\ pc = "await_getLogSources"
  /\ frame.fn = "resolveKibanaAdvancedSettingReference"
  /\ \E logSources \in LogSourceLists :
       LET indices == Join(MapIndexPattern(logSources), ",") IN
       /\ replies' = Append(replies, Ok(logSources))
       /\ frame' = [fn |-> frame.fn, indices |-> indices]
       /\ calls' = Append(calls,
              CreateCall(args.logViewId, args.logViewAttributes, indices))
       /\ pc' = "await_create"
       /\ UNCHANGED <<args, result>>

\* getLogSources rejected: the await has no catch, the error propagates
AdvancedGetLogSourcesRejected ==
  /\ pc = "await_getLogSources"
  /\ frame.fn = "resolveKibanaAdvancedSettingReference"
  /\ \E error \in ServiceErrors : Settle(Failed(error), Rejected(error))

AdvancedCreateResolved ==
  /\ pc = "await_create"
  /\ frame.fn = "resolveKibanaAdvancedSettingReference"
  /\ \E dataViewReference \in DataViews :
       Settle(Ok(dataViewReference),
              Fulfilled(AdvancedSettingResolved(args.logViewAttributes,
                                                frame.indices, dataViewReference)))

\* the .catch of the create call
AdvancedCreateRejected ==
  /\ pc = "await_create"
  /\ frame.fn = "resolveKibanaAdvancedSettingReference"
  /\ \E error \in ServiceErrors :
       Settle(Failed(error),
              Rejected(ResolveLogViewError(
                "Failed to create Data View reference: " \o ErrorToString(error),
                error)))

Next ==
  \/ resolveLogView
  \/ LegacyCreateResolved
  \/ LegacyCreateRejected
  \/ DataViewGetResolved
  \/ DataViewGetRejected
  \/ AdvancedGetLogSourcesResolved
  \/ AdvancedGetLogSourcesRejected
  \/ AdvancedCreateResolved
  \/ AdvancedCreateRejected

Spec == Init /\ [][Next]_vars

-----------------------------------------------------------------------------
(* Vocabulary of the properties *)

Type == args.logViewAttributes.logIndices.type
Started == pc # "start"
Resolved == pc = "settled" /\ result.status = "fulfilled"
Ops == {calls[i].op : i \in DOMAIN calls}
LastCall == calls[Len(calls)]
LastReply == replies[Len(replies)]
SomeCallFailed == \E i \in DOMAIN replies : ~replies[i].ok

\* the elements of strs separated by commas, built from the left
RECURSIVE CommaSeparated(_)
CommaSeparated(strs) ==
  IF Len(strs) = 0 THEN ""
  ELSE IF Len(strs) = 1 THEN strs[1]
  ELSE CommaSeparated(SubSeq(strs, 1, Len(strs) - 1)) \o "," \o strs[Len(strs)]

PatternsOf(logSources) == [i \in DOMAIN logSources |-> logSources[i].indexPattern]

-----------------------------------------------------------------------------
(* C1: the type of logIndices selects the branch, and an invocation makes  *)
(* the service calls of that branch only: 'index_name' one create,         *)
(* 'data_view' one get, 'kibana_advanced_setting' getLogSources and then   *)
(* create (both once it has resolved), never get.                          *)
C1_OneBranchResolved ==
  Started =>
    /\ Type = "index_name" =>
         /\ frame.fn = "resolveLegacyReference"
         /\ Len(calls) = 1 /\ calls[1].op = "create"
    /\ Type = "data_view" =>
         /\ frame.fn = "resolveDataViewReference"
         /\ Len(calls) = 1 /\ calls[1].op = "get"
    /\ Type = "kibana_advanced_setting" =>
         /\ frame.fn = "resolveKibanaAdvancedSettingReference"
         /\ Len(calls) >= 1 /\ calls[1].op = "getLogSources"
         /\ Ops \subseteq {"getLogSources", "create"}
         /\ Resolved => Ops = {"getLogSources", "create"}

C1_Witness ==
  /\ Resolved
  /\ Type = "kibana_advanced_setting"
  /\ Len(calls) = 2

(* C2: whenever a service call fails, the returned promise rejects with a  *)
(* ResolveLogViewError whose cause is that failure.                        *)
C2_EveryFailureWrapped ==
  \A i \in DOMAIN replies :
    ~replies[i].ok =>
      /\ result.status = "rejected"
      /\ result.reason.name = "ResolveLogViewError"
      /\ result.reason.cause = replies[i].error

(* C3: with a logIndices type that is none of the three kinds the          *)
(* invocation rejects with a plain Error, calls no service and resolves    *)
(* nothing.                                                                *)
C3_MalformedTypeThrows ==
  (Started /\ Type \notin {"index_name", "data_view", "kibana_advanced_setting"}) =>
    /\ pc = "settled"
    /\ result.status = "rejected"
    /\ result.reason.name = "Error"
    /\ calls = <<>>
    /\ replies = <<>>

C3_Witness ==
  /\ pc = "settled"
  /\ Type = "unknown"
  /\ result.status = "rejected"

(* C4: no retry and no recovery: each service operation is called at most  *)
(* once, and a failed call is the last call of the invocation, which ends  *)
(* rejected.                                                               *)
C4_NoRetryNoRecovery ==
  /\ \A i, j \in DOMAIN calls : calls[i].op = calls[j].op => i = j
  /\ \A i \in DOMAIN replies :
       ~replies[i].ok =>
         /\ i = Len(replies)
         /\ Len(calls) = i
         /\ pc = "settled"
         /\ result.status = "rejected"

C4_Witness ==
  /\ pc = "settled"
  /\ Len(replies) = 2
  /\ ~replies[2].ok
  /\ result.status = "rejected"

(* C5: a successful resolution returns the name, description and columns   *)
(* of the input, the tiebreaker constant, the data view the branch's       *)
(* create or get call returned, and that data view's fields.               *)
C5_CommonShape ==
  Resolved =>
    /\ result.value.name = args.logViewAttributes.name
    /\ result.value.description = args.logViewAttributes.description
    /\ result.value.columns = args.logViewAttributes.logColumns
    /\ result.value.tiebreakerField = TIEBREAKER_FIELD
    /\ Len(replies) = Len(calls)
    /\ LastCall.op = (IF Type = "data_view" THEN "get" ELSE "create")
    /\ LastReply.ok
    /\ result.value.dataViewReference = LastReply.value
    /\ result.value.fields = LastReply.value.fields

C5_Witness ==
  /\ Resolved
  /\ Type = "index_name"
  /\ result.value.name = "Nginx logs"
  /\ result.value.description = ""
  /\ result.value.columns # <<>>
  /\ result.value.fields # <<>>

(* C6: in the 'kibana_advanced_setting' branch create is called after and  *)
(* only after getLogSources has succeeded, also for an empty list, and the *)
(* title given to create and the returned indices are the index patterns   *)
(* of the log sources joined with ',' in the order returned.               *)
C6_AdvancedSettingOrder ==
  (Started /\ Type = "kibana_advanced_setting") =>
    /\ calls[1].op = "getLogSources"
    /\ \A i \in DOMAIN calls : calls[i].op = "create" =>
         /\ i = 2
         /\ Len(replies) >= 1
         /\ replies[1].ok
         /\ calls[i].args[1].title = CommaSeparated(PatternsOf(replies[1].value))
    /\ (Len(replies) >= 1 /\ replies[1].ok) =>
         (Len(calls) = 2 /\ calls[2].op = "create")
    /\ (Len(replies) >= 1 /\ ~replies[1].ok) => Len(calls) = 1
    /\ Resolved =>
         result.value.indices = CommaSeparated(PatternsOf(replies[1].value))

C6_Witness ==
  /\ Resolved
  /\ Type = "kibana_advanced_setting"
  /\ Len(replies[1].value) = 2
  /\ replies[1].value[1] # replies[1].value[2]
  /\ result.value.indices = "filebeat-*,logs-*"

(* C7: timestampField is TIMESTAMP_FIELD in the two creating branches,     *)
(* where it is also the timeFieldName the data view was created with; in   *)
(* the 'data_view' branch it is the data view's timeFieldName unless that  *)
(* is undefined or null, and TIMESTAMP_FIELD then.                         *)
C7_TimestampField ==
  Resolved =>
    /\ Type \in {"index_name", "kibana_advanced_setting"} =>
         /\ result.value.timestampField = TIMESTAMP_FIELD
         /\ LastCall.op = "create"
         /\ LastCall.args[1].timeFieldName = result.value.timestampField
    /\ Type = "data_view" =>
         LET timeFieldName == LastReply.value.timeFieldName IN
         /\ timeFieldName.type = "value" =>
              result.value.timestampField = timeFieldName.value
         /\ timeFieldName.type \in {"undefined", "null"} =>
              result.value.timestampField = TIMESTAMP_FIELD

C7_Witness ==
  /\ Resolved
  /\ Type = "data_view"
  /\ LastReply.value.timeFieldName = Some("")
  /\ result.value.timestampField = ""

(* C8: config.messageFields decides messageField in the 'index_name'       *)
(* branch only (the default when it is undefined or null); the other two   *)
(* branches return ['message'] whatever the config.                        *)
C8_MessageField ==
  Resolved =>
    /\ Type = "index_name" =>
         /\ args.config.messageFields.type = "value" =>
              result.value.messageField = args.config.messageFields.value
         /\ args.config.messageFields.type \in {"undefined", "null"} =>
              result.value.messageField = defaultLogViewsStaticConfig.messageFields
    /\ Type \in {"data_view", "kibana_advanced_setting"} =>
         result.value.messageField = <<"message">>

C8_Witness ==
  /\ Resolved
  /\ Type = "index_name"
  /\ args.config.messageFields = Some(<<"log.original", "message">>)
  /\ result.value.messageField = <<"log.original", "message">>

(* C9: runtimeMappings is empty in the two creating branches and is what   *)
(* getRuntimeMappings() of the fetched data view returns in the            *)
(* 'data_view' branch; indices is the configured indexName in the          *)
(* 'index_name' branch and getIndexPattern() of the fetched data view in   *)
(* the 'data_view' branch.                                                 *)
C9_RuntimeMappingsAndIndices ==
  Resolved =>
    /\ Type \in {"index_name", "kibana_advanced_setting"} =>
         result.value.runtimeMappings = {}
    /\ Type = "index_name" =>
         result.value.indices = args.logViewAttributes.logIndices.indexName
    /\ Type = "data_view" =>
         /\ result.value.runtimeMappings = LastReply.value.runtimeMappings
         /\ result.value.indices = LastReply.value.indexPattern

C9_Witness ==
  /\ Resolved
  /\ Type = "data_view"
  /\ result.value.runtimeMappings # {}
  /\ result.value.indices = "metrics-*"

====
